---------------------------- MODULE Spec2Model ----------------------------
(***************************************************************************)
(* Value-Added Prompt Framework: the session orchestrator                  *)
(* (ValueAddedFramework), its SessionTimer, the TinyDB-backed chat store   *)
(* (chat_utils) and the structured-completion gateway (openai_utils).      *)
(*                                                                         *)
(* Texts are sequences of string tokens, so that "contains the label",     *)
(* "is the raw message" and "is the enhanced payload" are different        *)
(* things.  Time is whole seconds.  None is 0 (Python's falsy value for    *)
(* both the unset chat id and the unset timer instants).                   *)
(***************************************************************************)
EXTENDS Integers, Sequences, FiniteSets, TLC

VARIABLES
    db,               \* TinyDB table 'chats': chat id -> list of {role, content}
    chat_id,          \* ValueAddedFramework.chat_id
    session_started,  \* ValueAddedFramework.session_started
    current_session,  \* ValueAddedFramework.current_session
    patient_history,  \* ValueAddedFramework.patient_history
    timer,            \* ValueAddedFramework.timer (SessionTimer fields)
    now,              \* time.time()
    last_call,        \* the most recent call on the orchestrator and its outcome
    turns,            \* reply pairs of the calls that succeeded since start_session
    calls,            \* number of calls made on the orchestrator so far
    json_call,        \* the run of generate_json_custom_ai in progress, if any
    probe,            \* the latest answer of a read-only query, if any
    tasks             \* the calls running at the same time, if any, each at its step

vars == <<db, chat_id, session_started, current_session, patient_history,
          timer, now, last_call, turns, calls, json_call, probe, tasks>>

\* What the orchestrator's own handlers never touch
aux == <<json_call, probe, tasks>>

----------------------------------------------------------------------------
(* Bounds of the model *)

MaxCalls == 5
MaxFailCalls == 3
MaxTicks == 2
TickStep == 1600

(* Program constants *)

None == 0
session_duration_minutes == 50

----------------------------------------------------------------------------
(* Inputs *)

UserMessages == { <<"I feel anxious">>, <<"I cannot sleep">> }
Responses == { <<"Tell me more">> }
Thoughts == { <<"Pt reports anxiety">> }
SessionNumbers == {2}

RECURSIVE Join(_, _)
Join(items, sep) ==
    IF Len(items) = 0 THEN ""
    ELSE IF Len(items) = 1 THEN items[1]
    ELSE items[1] \o sep \o Join(Tail(items), sep)

Get(dict, key, default) == IF key \in DOMAIN dict THEN dict[key] ELSE default

get_default_patient_history ==
    [ patient_id |-> "PAT001",
      name |-> "Alex Johnson",
      age |-> "28",
      previous_sessions |-> <<
          [ session_number |-> "1", date |-> "2024-06-18",
            key_topics |-> <<"work stress", "anxiety", "sleep issues">>,
            notes |-> "Patient reports high stress levels at work" ],
          [ session_number |-> "2", date |-> "2024-06-11",
            key_topics |-> <<"relationship concerns", "communication">>,
            notes |-> "Explored relationship dynamics with partner" ] >>,
      diagnosis |-> "Generalized Anxiety Disorder",
      medications |-> <<"Sertraline 50mg daily">>,
      therapy_goals |-> <<"Reduce anxiety symptoms", "Improve sleep quality">>,
      triggers |-> <<"work deadlines", "conflict situations">>,
      strengths |-> <<"intelligent", "motivated">> ]

OtherPatientHistory == [ patient_id |-> "PAT002", medications |-> <<>> ]

PatientHistories == { OtherPatientHistory }

----------------------------------------------------------------------------
(* SessionTimer (value_added_utils.py) *)

SessionTimer(minutes) ==
    [ session_duration |-> minutes * 60, start_time |-> None, end_time |-> None ]

\* start_session setting the start and leaving the deadline as it is
Timer_start_session_keeping_deadline(t, time) ==
    [ t EXCEPT !.start_time = time ]

Timer_start_session(t, time) ==
    [ t EXCEPT !.start_time = time, !.end_time = time + t.session_duration ]

Max(a, b) == IF a >= b THEN a ELSE b

\* get_time_left without the max
get_time_left_unclamped(t, time) ==
    IF t.start_time = None
    THEN [ minutes |-> 0, seconds |-> 0 ]
    ELSE LET time_left == t.end_time - time
         IN  [ minutes |-> time_left \div 60, seconds |-> time_left % 60 ]

get_time_left(t, time) ==
    IF t.start_time = None
    THEN [ minutes |-> 0, seconds |-> 0 ]
    ELSE LET time_left == Max(0, t.end_time - time)
         IN  [ minutes |-> time_left \div 60, seconds |-> time_left % 60 ]

get_time_left_string(t, time) ==
    LET time_left == get_time_left(t, time)
    IN  ToString(time_left.minutes) \o " minutes and "
          \o ToString(time_left.seconds) \o " seconds"

is_session_active(t, time) ==
    IF t.start_time = None THEN FALSE ELSE time < t.end_time

\* get_elapsed_time without the test for a timer that was not started
get_elapsed_time_unguarded(t, time) ==
    LET elapsed == time - t.start_time
    IN  [ minutes |-> elapsed \div 60, seconds |-> elapsed % 60 ]

get_elapsed_time(t, time) ==
    IF t.start_time = None
    THEN [ minutes |-> 0, seconds |-> 0 ]
    ELSE LET elapsed == time - t.start_time
         IN  [ minutes |-> elapsed \div 60, seconds |-> elapsed % 60 ]

\* the percentage stopped at 100
RoundPercentClamped(x, d) ==
    LET q == (x * 10000) \div d
        r == (x * 10000) % d
        rounded == IF 2 * r > d \/ (2 * r = d /\ q % 2 = 1) THEN q + 1 ELSE q
    IN  IF rounded > 10000 THEN 10000 ELSE rounded

\* round(x / d * 100, 2), kept in hundredths of a percent (round half to even)
RoundPercent(x, d) ==
    LET q == (x * 10000) \div d
        r == (x * 10000) % d
    IN  IF 2 * r > d \/ (2 * r = d /\ q % 2 = 1) THEN q + 1 ELSE q

extract_session_metrics(t, time) ==
    LET elapsed == get_elapsed_time(t, time)
        remaining == get_time_left(t, time)
    IN  [ session_active |-> is_session_active(t, time),
          elapsed_minutes |-> elapsed.minutes,
          elapsed_seconds |-> elapsed.seconds,
          remaining_minutes |-> remaining.minutes,
          remaining_seconds |-> remaining.seconds,
          total_duration_minutes |-> t.session_duration \div 60,
          completion_percentage |->
              RoundPercent(elapsed.minutes * 60 + elapsed.seconds, t.session_duration) ]

----------------------------------------------------------------------------
(* Prompt composition (value_added_utils.py) *)

Goals(goals) == [ i \in 1..Len(goals) |-> "- " \o goals[i] ]

RECURSIVE FormatSessions(_)
FormatSessions(sessions) ==
    IF Len(sessions) = 0 THEN <<>>
    ELSE LET session == sessions[1]
         IN  << "Session " \o Get(session, "session_number", "Unknown")
                  \o " (" \o Get(session, "date", "Unknown date") \o "):",
                "- Topics: " \o Join(Get(session, "key_topics", <<>>), ", "),
                "- Notes: " \o Get(session, "notes", "No notes available") >>
             \o FormatSessions(Tail(sessions))

format_patient_history(history) ==
    << "Patient: " \o Get(history, "name", "Unknown")
         \o " (Age: " \o Get(history, "age", "Unknown") \o ")",
       "Diagnosis: " \o Get(history, "diagnosis", "None specified"),
       "Current Medications: " \o Join(Get(history, "medications", <<>>), ", "),
       "Therapy Goals:" >>
    \o Goals(Get(history, "therapy_goals", <<>>))
    \o << "Known Triggers:", Join(Get(history, "triggers", <<>>), ", "),
          "Patient Strengths:", Join(Get(history, "strengths", <<>>), ", "),
          "Previous Sessions Summary:" >>
    \o FormatSessions(Get(history, "previous_sessions", <<>>))

\* create_enhanced_user_input leaving the history section out
create_enhanced_user_input_without_history(latest_message, t, time, session, history) ==
    << "Latest_Patient_Message:", "{" >> \o latest_message \o << "}", ";" >>
    \o << "Time_Left_In_Session:", "{", get_time_left_string(t, time), "}", ";" >>
    \o << "Current_Session:", "{", "Session " \o ToString(session), "}", ";" >>

create_enhanced_user_input(latest_message, t, time, session, history) ==
    << "Latest_Patient_Message:", "{" >> \o latest_message \o << "}", ";" >>
    \o << "Time_Left_In_Session:", "{", get_time_left_string(t, time), "}", ";" >>
    \o << "Current_Session:", "{", "Session " \o ToString(session), "}", ";" >>
    \o << "Patient_History:", "{" >> \o format_patient_history(history) \o << "}", ";" >>

get_system_prompt ==
    << "You are a psychology bot. You are currently in session with the patient.",
       "You will receive enhanced user input that includes:",
       "-", "Latest_Patient_Message:", "The patient's current message",
       "-", "Time_Left_In_Session:", "How much time remains in the current session",
       "-", "Current_Session:", "Which session number this is",
       "-", "Patient_History:", "Complete patient background and previous session notes",
       "Instructions:",
       "You MUST respond in JSON format with exactly this structure:",
       "response", "psychiatrist_thoughts" >>

create_session_start_message ==
    [ role |-> "user", content |-> << "The User is just entering the chat." >> ]

required_components ==
    << "Latest_Patient_Message:", "Time_Left_In_Session:",
       "Current_Session:", "Patient_History:" >>

Contains(text, component) == \E i \in 1..Len(text) : text[i] = component

validate_enhanced_input(enhanced_input) ==
    \A k \in 1..Len(required_components) :
        Contains(enhanced_input, required_components[k])

----------------------------------------------------------------------------
(* The chat store (chat_utils.py).  A store is a function from the chat    *)
(* ids handed out so far, 1..Len(d), to the chat's list of messages; an    *)
(* operation of the store can also raise IOError, which the handlers take  *)
(* as an input.                                                            *)

Roles == { "user", "assistant", "system" }

Message(role, content) == [ role |-> role, content |-> content ]

\* uuid.uuid4(): an identifier no chat of the store has
NewChatId(d) == Len(d) + 1

begin_chat(d) == [ db |-> Append(d, <<>>), chat_id |-> NewChatId(d) ]

HasChat(d, id) == id \in DOMAIN d

\* fetch_chat(...) or []
fetch_chat(d, id) == IF HasChat(d, id) THEN d[id] ELSE <<>>

\* add_message putting the new message in front of the list
add_message_in_front(d, id, role, message) ==
    IF role \notin Roles THEN [ db |-> d, result |-> "ValueError" ]
    ELSE IF ~HasChat(d, id) THEN [ db |-> d, result |-> "False" ]
    ELSE [ db |-> [ d EXCEPT ![id] = << Message(role, message) >> \o @ ],
           result |-> "True" ]

\* add_message taking an unknown role for "user"
add_message_coercing_role(d, id, role, message) ==
    IF ~HasChat(d, id) THEN [ db |-> d, result |-> "False" ]
    ELSE [ db |-> [ d EXCEPT ![id] =
                        Append(@, Message(IF role \in Roles THEN role ELSE "user",
                                          message)) ],
           result |-> "True" ]

\* add_message writing the message into every chat of the store
add_message_to_every_chat(d, id, role, message) ==
    IF role \notin Roles THEN [ db |-> d, result |-> "ValueError" ]
    ELSE IF ~HasChat(d, id) THEN [ db |-> d, result |-> "False" ]
    ELSE [ db |-> [ other \in DOMAIN d |-> Append(d[other], Message(role, message)) ],
           result |-> "True" ]

add_message(d, id, role, message) ==
    IF role \notin Roles THEN [ db |-> d, result |-> "ValueError" ]
    ELSE IF ~HasChat(d, id) THEN [ db |-> d, result |-> "False" ]
    ELSE [ db |-> [ d EXCEPT ![id] = Append(@, Message(role, message)) ],
           result |-> "True" ]

----------------------------------------------------------------------------
(* The structured-completion gateway (openai_utils.py).  A completion is   *)
(* what the hosted API does with one request: there is no API key, the     *)
(* request raises, the model refuses, or the reply parses into the two     *)
(* fields of PsychologistResponse.                                         *)

NoUsage ==
    [ present |-> FALSE, prompt_tokens |-> 0, completion_tokens |-> 0, total_tokens |-> 0 ]

Usages ==
    { [ present |-> TRUE, prompt_tokens |-> 50, completion_tokens |-> 20,
        total_tokens |-> 70 ] }

Completion(kind, response, thoughts, usage) ==
    [ kind |-> kind, response |-> response, psychiatrist_thoughts |-> thoughts,
      usage |-> usage ]

NotCalled == Completion("not called", <<>>, <<>>, NoUsage)

Failures == { "api error", "refusal" }

Completions ==
    { Completion(k, <<>>, <<>>, NoUsage) : k \in Failures }
    \cup { Completion("parsed", r, n, u) : r \in Responses, n \in Thoughts, u \in Usages }

NoError == "none"

ErrorOf(kind) ==
    CASE kind = "no api key" -> "ValueError: OpenAI API key not provided."
      [] kind = "api error" -> "APIError"
      [] kind = "refusal" -> "ValueError: Model refused to respond"
      [] OTHER -> NoError

generate_structured_response(messages, completion) ==
    LET error == IF Len(messages) = 0 THEN "ValueError: No messages provided."
                 ELSE ErrorOf(completion.kind)
    IN  [ error |-> error,
          structured_output |->
              [ response |-> completion.response,
                psychiatrist_thoughts |-> completion.psychiatrist_thoughts ],
          usage |-> IF completion.usage.present THEN completion.usage.total_tokens ELSE 0,
          input_tokens |-> IF completion.usage.present THEN completion.usage.prompt_tokens ELSE 0,
          output_tokens |->
              IF completion.usage.present THEN completion.usage.completion_tokens ELSE 0 ]

----------------------------------------------------------------------------
(* ValueAddedFramework (value_added_framework.py) *)

IOError == "IOError"
SessionNotActive == "ValueError: Session not started. Call start_session() first."
EnhancementInvalid == "ValueError: Enhanced input validation failed"
Ok == "ok"

Call(op, arg, result, ret, sent, model) ==
    [ op |-> op, arg |-> arg, result |-> result, ret |-> ret, sent |-> sent,
      model |-> model ]

NoTurns == [ clean |-> FALSE, pairs |-> <<>> ]

\* The lifecycle state, read off the two fields that carry it
State ==
    IF session_started THEN "Active"
    ELSE IF chat_id = None THEN "NotStarted"
    ELSE "Ended"

\* No run of generate_json_custom_ai was started
JsonIdle ==
    [ status |-> "idle", retry_count |-> 0, replies |-> <<>>, output |-> "", error |-> "" ]

\* No query was made
NoProbe == [ fn |-> "none" ]

NoTasks == [ mode |-> "none" ]

Init ==
    /\ db = <<>>
    /\ chat_id = None
    /\ session_started = FALSE
    /\ current_session = 1
    /\ patient_history = get_default_patient_history
    /\ timer = SessionTimer(session_duration_minutes)
    /\ now = 1
    /\ last_call = Call("__init__", <<>>, Ok, None, <<>>, NotCalled)
    /\ turns = NoTurns
    /\ calls = 0
    /\ json_call = JsonIdle
    /\ probe = NoProbe
    /\ tasks = NoTasks

\* start_entries with the two appends exchanged
start_entries_opening_first ==
    << Message("user", create_session_start_message.content),
       Message("system", get_system_prompt) >>

\* The entries start_session seeds a new chat with, in order
start_entries ==
    << Message("system", get_system_prompt),
       Message("user", create_session_start_message.content) >>

RECURSIVE add_messages_to(_, _, _)
add_messages_to(d, id, entries) ==
    IF Len(entries) = 0 THEN d
    ELSE add_messages_to(add_message(d, id, entries[1].role, entries[1].content).db,
                         id, Tail(entries))

\* fail_at: the store call of the handler that raises IOError
\* (1 begin_chat, 2 and 3 the two add_message calls; 0 none)
start_session(fail_at) ==
    /\ calls < MaxCalls /\ calls' = calls + 1
    /\ IF fail_at = 1
       THEN /\ last_call' = Call("start_session", <<>>, IOError, None, <<>>, NotCalled)
            /\ UNCHANGED <<db, chat_id, session_started, timer, turns>>
       ELSE LET chat == begin_chat(db)
                seeded == IF fail_at = 0 THEN start_entries
                          ELSE SubSeq(start_entries, 1, fail_at - 2)
            IN  /\ chat_id' = chat.chat_id
                /\ timer' = Timer_start_session(timer, now)
                /\ session_started' = TRUE
                /\ db' = add_messages_to(chat.db, chat.chat_id, seeded)
                /\ last_call' =
                       IF fail_at = 0
                       THEN Call("start_session", <<>>, Ok, chat.chat_id, <<>>, NotCalled)
                       ELSE Call("start_session", <<>>, IOError, None, <<>>, NotCalled)
                /\ turns' = IF fail_at = 0 THEN [ clean |-> TRUE, pairs |-> <<>> ]
                            ELSE NoTurns
    /\ UNCHANGED <<current_session, patient_history, now>>
    /\ UNCHANGED aux

\* update_patient_history keeping the history it has
update_patient_history_keeping_old(new_history) ==
    /\ calls < MaxCalls /\ calls' = calls + 1
    /\ patient_history' = patient_history
    /\ last_call' = Call("update_patient_history", new_history, Ok, None, <<>>, NotCalled)
    /\ UNCHANGED <<db, chat_id, session_started, current_session, timer, now, turns>>
    /\ UNCHANGED aux

update_patient_history(new_history) ==
    /\ calls < MaxCalls /\ calls' = calls + 1
    /\ patient_history' = new_history
    /\ last_call' = Call("update_patient_history", new_history, Ok, None, <<>>, NotCalled)
    /\ UNCHANGED <<db, chat_id, session_started, current_session, timer, now, turns>>
    /\ UNCHANGED aux

set_current_session(session_number) ==
    /\ calls < MaxCalls /\ calls' = calls + 1
    /\ current_session' = session_number
    /\ last_call' = Call("set_current_session", session_number, Ok, None, <<>>, NotCalled)
    /\ UNCHANGED <<db, chat_id, session_started, patient_history, timer, now, turns>>
    /\ UNCHANGED aux

\* openai_messages sending the enhanced message alone
openai_messages_without_history(chat_messages, enhanced_input) ==
    << Message("user", enhanced_input) >>

\* lines 158-170: the stored messages, then the enhanced user message
openai_messages(chat_messages, enhanced_input) ==
    [ i \in 1..Len(chat_messages) |->
        [ role |-> chat_messages[i].role, content |-> chat_messages[i].content ] ]
    \o << Message("user", enhanced_input) >>

\* save_turn storing the clinician notes as the assistant entry
save_turn_notes(d, id, user_message, structured_output, fail_at) ==
    IF fail_at = 2 THEN d
    ELSE LET saved == add_message(d, id, "user", user_message).db
         IN  IF fail_at = 3 THEN saved
             ELSE add_message(saved, id, "assistant",
                              structured_output.psychiatrist_thoughts).db

\* save_turn storing the reply before the user message
save_turn_reply_first(d, id, user_message, structured_output, fail_at) ==
    IF fail_at = 2 THEN d
    ELSE LET saved == add_message(d, id, "assistant", structured_output.response).db
         IN  IF fail_at = 3 THEN saved
             ELSE add_message(saved, id, "user", user_message).db

\* lines 183-185: the raw user message, then the reply
\* (fail_at 2: the first add_message raises; 3: the second one does)
save_turn(d, id, user_message, structured_output, fail_at) ==
    IF fail_at = 2 THEN d
    ELSE LET saved == add_message(d, id, "user", user_message).db
         IN  IF fail_at = 3 THEN saved
             ELSE add_message(saved, id, "assistant", structured_output.response).db

\* turn_commit with the user message saved before the model is asked
turn_commit_user_first(d, id, user_message, response_data, fail_at) ==
    IF response_data.error # NoError
    THEN add_message(d, id, "user", user_message).db
    ELSE save_turn(d, id, user_message, response_data.structured_output, fail_at)

\* lines 172-185: what the call leaves in the store once the model was asked;
\* an exception of the gateway leaves the try block before the appends
turn_commit(d, id, user_message, response_data, fail_at) ==
    IF response_data.error # NoError THEN d
    ELSE save_turn(d, id, user_message, response_data.structured_output, fail_at)

\* lines 187-203
framework_response(response_data, t, time, session) ==
    [ patient_response |-> response_data.structured_output.response,
      psychiatrist_thoughts |-> response_data.structured_output.psychiatrist_thoughts,
      session_metrics |-> extract_session_metrics(t, time),
      time_left |-> get_time_left_string(t, time),
      session_active |-> is_session_active(t, time),
      current_session |-> session,
      usage_stats |-> [ input_tokens |-> response_data.input_tokens,
                        output_tokens |-> response_data.output_tokens,
                        total_tokens |-> response_data.usage ] ]

\* process_user_message without its guard
rejects_message_never == FALSE

\* line 139
\* process_user_message refusing a message once the deadline has passed
rejects_message_after_deadline ==
    ~session_started \/ now >= timer.end_time

rejects_message == ~session_started

\* fail_at: the store call of the handler that raises IOError
\* (1 fetch_chat, 2 and 3 the two add_message calls; 0 none)
process_user_message(user_message, completion, fail_at) ==
    /\ calls < MaxCalls /\ calls' = calls + 1
    /\ IF rejects_message
       THEN /\ last_call' = Call("process_user_message", user_message,
                                 SessionNotActive, None, <<>>, NotCalled)
            /\ UNCHANGED <<db, turns>>
       ELSE LET enhanced_input ==
                    create_enhanced_user_input(user_message, timer, now,
                                               current_session, patient_history)
                messages == openai_messages(fetch_chat(db, chat_id), enhanced_input)
                response_data == generate_structured_response(messages, completion)
            IN  IF ~validate_enhanced_input(enhanced_input)
                THEN /\ last_call' = Call("process_user_message", user_message,
                                          EnhancementInvalid, None, <<>>, NotCalled)
                     /\ UNCHANGED <<db, turns>>
                ELSE IF fail_at = 1
                THEN /\ last_call' = Call("process_user_message", user_message,
                                          IOError, None, <<>>, NotCalled)
                     /\ UNCHANGED <<db, turns>>
                ELSE /\ db' = turn_commit(db, chat_id, user_message, response_data, fail_at)
                     /\ IF response_data.error # NoError
                        THEN /\ last_call' = Call("process_user_message", user_message,
                                                  response_data.error, None, messages,
                                                  completion)
                             /\ UNCHANGED turns
                        ELSE IF fail_at \in {2, 3}
                        THEN /\ last_call' = Call("process_user_message", user_message,
                                                  IOError, None, messages, completion)
                             /\ turns' = IF fail_at = 3 THEN NoTurns ELSE turns
                        ELSE /\ last_call' =
                                    Call("process_user_message", user_message, Ok,
                                         framework_response(response_data, timer, now,
                                                            current_session),
                                         messages, completion)
                             /\ turns' =
                                    IF turns.clean
                                    THEN [ turns EXCEPT !.pairs =
                                             Append(@, << user_message,
                                                          completion.response >>) ]
                                    ELSE NoTurns
    /\ UNCHANGED <<chat_id, session_started, current_session, patient_history,
                   timer, now>>
    /\ UNCHANGED aux

\* message_count whose total leaves the system entries out
message_count_without_system(chat_messages) ==
    LET user == Cardinality({ i \in 1..Len(chat_messages) : chat_messages[i].role = "user" })
        assistant ==
            Cardinality({ i \in 1..Len(chat_messages) : chat_messages[i].role = "assistant" })
    IN  [ user |-> user, assistant |-> assistant, total |-> user + assistant ]

\* lines 222-233
message_count(chat_messages) ==
    [ user |-> Cardinality({ i \in 1..Len(chat_messages) : chat_messages[i].role = "user" }),
      assistant |->
          Cardinality({ i \in 1..Len(chat_messages) : chat_messages[i].role = "assistant" }),
      total |-> Len(chat_messages) ]

get_session_summary(d, id, session, history, t, time) ==
    [ chat_id |-> id,
      session_number |-> session,
      session_metrics |-> extract_session_metrics(t, time),
      message_count |-> message_count(fetch_chat(d, id)),
      session_duration_minutes |-> session_duration_minutes,
      patient_name |-> Get(history, "name", "Unknown") ]

\* line 249
end_message(session) ==
    << "Session " \o ToString(session) \o " ended. Duration: "
         \o ToString(session_duration_minutes) \o " minutes." >>

\* summary_then_close with the summary taken after the closing entry is added
close_then_summary(d, id, session, history, t, time) ==
    LET closed == IF id # None THEN add_message(d, id, "system", end_message(session)).db
                  ELSE d
    IN  [ summary |-> get_session_summary(closed, id, session, history, t, time),
          db |-> closed ]

\* lines 245-250: the summary is taken, then the closing entry is added
summary_then_close(d, id, session, history, t, time) ==
    LET summary == get_session_summary(d, id, session, history, t, time)
        closed == IF id # None THEN add_message(d, id, "system", end_message(session)).db
                  ELSE d
    IN  [ summary |-> summary, db |-> closed ]

\* fail_at: the store call of the handler that raises IOError
\* (1 fetch_chat of the summary, 2 the add_message of the closing entry; 0 none)
end_session(fail_at) ==
    /\ calls < MaxCalls /\ calls' = calls + 1
    /\ IF fail_at = 1 \/ (fail_at = 2 /\ chat_id # None)
       THEN /\ last_call' = Call("end_session", <<>>, IOError, None, <<>>, NotCalled)
            /\ UNCHANGED <<db, session_started, turns>>
       ELSE LET done == summary_then_close(db, chat_id, current_session,
                                           patient_history, timer, now)
            IN  /\ db' = done.db
                /\ session_started' = FALSE
                /\ last_call' = Call("end_session", <<>>, Ok, done.summary, <<>>, NotCalled)
                /\ turns' = NoTurns
    /\ UNCHANGED <<chat_id, current_session, patient_history, timer, now>>
    /\ UNCHANGED aux

\* time passes
Tick ==
    /\ now + TickStep <= 1 + MaxTicks * TickStep
    /\ now' = now + TickStep
    /\ UNCHANGED <<db, chat_id, session_started, current_session, patient_history,
                   timer, last_call, turns, calls>>
    /\ UNCHANGED aux

----------------------------------------------------------------------------
(* The JSON-retry utility (openai_utils.py, generate_json_custom_ai).  A    *)
(* reply is what one generate_text request comes back with: the request    *)
(* raises, or it returns a text, possibly empty.  A text is a sequence of  *)
(* tokens; a JSON document is one token.                                   *)

TextReply(kind, text) == [ kind |-> kind, text |-> text ]

\* The documents json.loads accepts, and whether Python takes the value as true
JsonTruthy ==
    ("{\"mood\": \"anxious\"}" :> TRUE) @@ ("{\"mood\": \"calm\"}" :> TRUE)
    @@ ("{}" :> FALSE) @@ ("null" :> FALSE)

TextReplies ==
    { TextReply("api error", <<>>),
      TextReply("text", <<>>),
      TextReply("text", << "I cannot answer that" >>),
      TextReply("text", << "{}" >>),
      TextReply("text", << "<fence json>", "{\"mood\": \"anxious\"}", "<fence>" >>),
      TextReply("text", << "{\"mood\": \"calm\"}" >>) }

SystemPrompts ==
    { <<>>,
      << [ id |-> 1, message |-> "Extract the mood as JSON", model |-> "gpt-4o-mini" ] >> }

PromptIds == {1, 2}

\* the opening and closing marks of a fenced code block (three backticks)
IsNotFence(token) == token \notin { "<fence json>", "<fence>" }

\* line 208
clean_response(text) == SelectSeq(text, IsNotFence)

ParseNone == [ parsed |-> FALSE, truthy |-> FALSE, value |-> "None" ]

parse_json(content) ==
    IF Len(content) = 1 /\ content[1] \in DOMAIN JsonTruthy
    THEN [ parsed |-> TRUE, truthy |-> JsonTruthy[content[1]], value |-> content[1] ]
    ELSE ParseNone

\* line 191
find_prompt(system_prompts, prompt_id) ==
    \E i \in 1..Len(system_prompts) : system_prompts[i].id = prompt_id

RetryExhausted == "ValueError: Exceeded retry attempts for getting JSON response from OpenAI"
NoText == "ValueError: No text in response"
PromptNotFound == "ValueError: System prompt not found"

JsonRaised(run, replies, error) ==
    [ run EXCEPT !.status = "raised", !.replies = replies, !.error = error ]

json_attempt_retrying_api_error(run, reply) ==
    LET replies == Append(run.replies, reply)
    IN  IF reply.kind = "api error" /\ run.retry_count < 5
        THEN [ run EXCEPT !.retry_count = @ + 1, !.replies = replies ]
        ELSE IF reply.kind = "api error" THEN JsonRaised(run, replies, "APIError")
        ELSE IF Len(reply.text) = 0 THEN JsonRaised(run, replies, NoText)
        ELSE LET parsed_response == parse_json(clean_response(reply.text))
             IN  IF ~parsed_response.truthy /\ run.retry_count < 5
                 THEN [ run EXCEPT !.retry_count = @ + 1, !.replies = replies ]
                 ELSE IF ~parsed_response.truthy
                 THEN JsonRaised(run, replies, RetryExhausted)
                 ELSE [ run EXCEPT !.status = "returned", !.replies = replies,
                                   !.output = parsed_response.value ]

\* the retry made only when the text did not parse
json_attempt_returning_falsy(run, reply) ==
    LET replies == Append(run.replies, reply)
    IN  IF reply.kind = "api error" THEN JsonRaised(run, replies, "APIError")
        ELSE IF Len(reply.text) = 0 THEN JsonRaised(run, replies, NoText)
        ELSE LET parsed_response == parse_json(clean_response(reply.text))
             IN  IF ~parsed_response.parsed /\ run.retry_count < 5
                 THEN [ run EXCEPT !.retry_count = @ + 1, !.replies = replies ]
                 ELSE IF ~parsed_response.parsed
                 THEN JsonRaised(run, replies, RetryExhausted)
                 ELSE [ run EXCEPT !.status = "returned", !.replies = replies,
                                   !.output = parsed_response.value ]

\* a reply without text taken for one that did not parse
json_attempt_retrying_no_text(run, reply) ==
    LET replies == Append(run.replies, reply)
    IN  IF reply.kind = "api error" THEN JsonRaised(run, replies, "APIError")
        ELSE LET parsed_response == parse_json(clean_response(reply.text))
             IN  IF ~parsed_response.truthy /\ run.retry_count < 5
                 THEN [ run EXCEPT !.retry_count = @ + 1, !.replies = replies ]
                 ELSE IF ~parsed_response.truthy
                 THEN JsonRaised(run, replies, RetryExhausted)
                 ELSE [ run EXCEPT !.status = "returned", !.replies = replies,
                                   !.output = parsed_response.value ]

\* lines 204-228: one invocation of the function, given the reply to its request
json_attempt(run, reply) ==
    LET replies == Append(run.replies, reply)
    IN  IF reply.kind = "api error" THEN JsonRaised(run, replies, "APIError")
        ELSE IF Len(reply.text) = 0 THEN JsonRaised(run, replies, NoText)
        ELSE LET parsed_response == parse_json(clean_response(reply.text))
             IN  IF ~parsed_response.truthy /\ run.retry_count < 5
                 THEN [ run EXCEPT !.retry_count = @ + 1, !.replies = replies ]
                 ELSE IF ~parsed_response.truthy
                 THEN JsonRaised(run, replies, RetryExhausted)
                 ELSE [ run EXCEPT !.status = "returned", !.replies = replies,
                                   !.output = parsed_response.value ]

\* lines 189-202: the call, up to its first request
generate_json_custom_ai(system_prompts, prompt_id) ==
    /\ json_call.status = "idle"
    /\ json_call' =
           IF find_prompt(system_prompts, prompt_id)
           THEN [ JsonIdle EXCEPT !.status = "running" ]
           ELSE JsonRaised(JsonIdle, <<>>, PromptNotFound)
    /\ UNCHANGED <<db, chat_id, session_started, current_session, patient_history,
                   timer, now, last_call, turns, calls, probe, tasks>>

\* the request of the invocation in progress is answered
generate_text_returns(reply) ==
    /\ json_call.status = "running"
    /\ json_call' = json_attempt(json_call, reply)
    /\ UNCHANGED <<db, chat_id, session_started, current_session, patient_history,
                   timer, now, last_call, turns, calls, probe, tasks>>

----------------------------------------------------------------------------
(* The transcript store called directly (chat_utils.py): what a caller of  *)
(* create_new_chat, add_message and parse_chat sees.  probe holds the last  *)
(* call with its arguments and its result.                                  *)

MaxStoreCalls == 4

\* roles a caller may pass: the three of the store and one it does not know
CallerRoles == Roles \cup { "tool" }

StoreCall(fn, id, role, message, result, text) ==
    [ fn |-> fn, id |-> id, role |-> role, message |-> message,
      result |-> result, text |-> text ]

RECURSIVE JoinText(_, _)
JoinText(items, sep) ==
    IF Len(items) = 0 THEN <<>>
    ELSE IF Len(items) = 1 THEN items[1]
    ELSE items[1] \o << sep >> \o JoinText(Tail(items), sep)

\* lines 158-167
RECURSIVE format_messages(_, _, _)
format_messages(messages, user_replacement, assistant_replacement) ==
    IF Len(messages) = 0 THEN <<>>
    ELSE LET msg == messages[1]
             rest == format_messages(Tail(messages), user_replacement,
                                     assistant_replacement)
         IN  IF msg.role = "user"
             THEN << << "*" \o user_replacement \o "*:" >> \o msg.content >> \o rest
             ELSE IF msg.role = "assistant"
             THEN << << "*" \o assistant_replacement \o "*:" >> \o msg.content >> \o rest
             ELSE rest

\* result "None" for a chat that is missing or has no message (line 155)
parse_chat(d, id, user_replacement, assistant_replacement) ==
    LET messages == fetch_chat(d, id)
    IN  IF Len(messages) = 0 THEN [ result |-> "None", text |-> <<>> ]
        ELSE [ result |-> "str",
               text |-> JoinText(format_messages(messages, user_replacement,
                                                 assistant_replacement),
                                 " |\n| ") ]

store_create_new_chat ==
    /\ calls < MaxStoreCalls /\ calls' = calls + 1
    /\ db' = begin_chat(db).db
    /\ probe' = StoreCall("create_new_chat", begin_chat(db).chat_id, "", <<>>, "id", <<>>)
    /\ UNCHANGED <<chat_id, session_started, current_session, patient_history,
                   timer, now, last_call, turns, json_call, tasks>>

store_add_message(id, role, message) ==
    /\ calls < MaxStoreCalls /\ calls' = calls + 1
    /\ db' = add_message(db, id, role, message).db
    /\ probe' = StoreCall("add_message", id, role, message,
                          add_message(db, id, role, message).result, <<>>)
    /\ UNCHANGED <<chat_id, session_started, current_session, patient_history,
                   timer, now, last_call, turns, json_call, tasks>>

store_parse_chat(id) ==
    /\ probe' = StoreCall("parse_chat", id, "", <<>>,
                          parse_chat(db, id, "Patient", "Therapist").result,
                          parse_chat(db, id, "Patient", "Therapist").text)
    /\ UNCHANGED <<db, chat_id, session_started, current_session, patient_history,
                   timer, now, last_call, turns, calls, json_call, tasks>>

\* identifiers of the chats of the store, and one no chat has
ChatIds == 1..(Len(db) + 1)

NextStore ==
    \/ store_create_new_chat
    \/ \E id \in ChatIds, role \in CallerRoles, message \in UserMessages :
           store_add_message(id, role, message)
    \/ \E id \in ChatIds : store_parse_chat(id)

SpecStore == Init /\ [][NextStore]_vars

----------------------------------------------------------------------------
(* The two functions of the prompt composer applied to inputs of a caller's *)
(* choosing (value_added_utils.py).  probe holds the last application.      *)

MaxTextLen == 4

ComposeCall(fn, text, result) == [ fn |-> fn, text |-> text, result |-> result ]

\* messages a patient can type: two plain ones, nothing, and one that types a
\* label of the payload
TypedMessages ==
    UserMessages \cup { <<>>, << "Patient_History:", "none of your business" >> }

ComposeTimers ==
    { SessionTimer(session_duration_minutes),
      Timer_start_session(SessionTimer(session_duration_minutes), 0) }

ComposeTimes == { 0, TickStep, 2 * TickStep }

ComposeSessions == { 1 } \cup SessionNumbers

ComposeHistories == { get_default_patient_history } \cup PatientHistories

\* texts made of the four labels and of one other word
TextTokens ==
    { required_components[k] : k \in 1..Len(required_components) } \cup { "hello" }

ValidatedTexts == UNION { [ 1..n -> TextTokens ] : n \in 0..MaxTextLen }

compose_enhance(latest_message, t, time, session, history) ==
    /\ probe' = ComposeCall("create_enhanced_user_input",
                            create_enhanced_user_input(latest_message, t, time,
                                                       session, history),
                            "")
    /\ UNCHANGED <<db, chat_id, session_started, current_session, patient_history,
                   timer, now, last_call, turns, calls, json_call, tasks>>

compose_validate(text) ==
    /\ probe' = ComposeCall("validate_enhanced_input", text,
                            IF validate_enhanced_input(text) THEN "True" ELSE "False")
    /\ UNCHANGED <<db, chat_id, session_started, current_session, patient_history,
                   timer, now, last_call, turns, calls, json_call, tasks>>

\* The composer applied on its own, or else the orchestrator asked for a few
\* turns, which applies it at lines 144-153
NextCompose ==
    \/ /\ calls = 0
       /\ \/ /\ probe = NoProbe
             /\ \/ \E latest_message \in TypedMessages, t \in ComposeTimers,
                      time \in ComposeTimes, session \in ComposeSessions,
                      history \in ComposeHistories :
                        compose_enhance(latest_message, t, time, session, history)
                \/ \E text \in ValidatedTexts : compose_validate(text)
          \/ /\ probe # NoProbe
             /\ probe.fn = "create_enhanced_user_input"
             /\ compose_validate(probe.text)
    \/ /\ probe = NoProbe
       /\ calls < MaxFailCalls
       /\ \/ start_session(0)
          \/ \E new_history \in PatientHistories : update_patient_history(new_history)
          \/ \E session_number \in SessionNumbers : set_current_session(session_number)
          \/ \E user_message \in UserMessages, completion \in Completions :
                 process_user_message(user_message, completion, 0)

SpecCompose == Init /\ [][NextCompose]_vars

----------------------------------------------------------------------------
(* A SessionTimer on its own (value_added_utils.py): a caller makes one of  *)
(* any duration, starts it when it likes, and reads it as time goes by,     *)
(* second by second.  probe holds what the last read returned, until time   *)
(* moves on or the timer is started again.                                  *)

MaxClockTime == 130

ClockDurations == { 1, 2 }

ClockCall(fn, value) == [ fn |-> fn, value |-> value ]

InitClock ==
    /\ db = <<>>
    /\ chat_id = None
    /\ session_started = FALSE
    /\ current_session = 1
    /\ patient_history = get_default_patient_history
    /\ timer \in { SessionTimer(minutes) : minutes \in ClockDurations }
    /\ now = 1
    /\ last_call = Call("__init__", <<>>, Ok, None, <<>>, NotCalled)
    /\ turns = NoTurns
    /\ calls = 0
    /\ json_call = JsonIdle
    /\ probe = NoProbe
    /\ tasks = NoTasks

clock_start_session ==
    /\ timer' = Timer_start_session(timer, now)
    /\ probe' = NoProbe
    /\ UNCHANGED <<db, chat_id, session_started, current_session, patient_history,
                   now, last_call, turns, calls, json_call, tasks>>

clock_get_time_left ==
    /\ probe' = ClockCall("get_time_left", get_time_left(timer, now))
    /\ UNCHANGED <<db, chat_id, session_started, current_session, patient_history,
                   timer, now, last_call, turns, calls, json_call, tasks>>

clock_is_session_active ==
    /\ probe' = ClockCall("is_session_active", is_session_active(timer, now))
    /\ UNCHANGED <<db, chat_id, session_started, current_session, patient_history,
                   timer, now, last_call, turns, calls, json_call, tasks>>

clock_extract_session_metrics ==
    /\ probe' = ClockCall("extract_session_metrics", extract_session_metrics(timer, now))
    /\ UNCHANGED <<db, chat_id, session_started, current_session, patient_history,
                   timer, now, last_call, turns, calls, json_call, tasks>>

\* one second goes by
clock_tick ==
    /\ now < MaxClockTime
    /\ now' = now + 1
    /\ probe' = NoProbe
    /\ UNCHANGED <<db, chat_id, session_started, current_session, patient_history,
                   timer, last_call, turns, calls, json_call, tasks>>

NextClock ==
    \/ clock_start_session
    \/ clock_get_time_left
    \/ clock_is_session_active
    \/ clock_extract_session_metrics
    \/ clock_tick

SpecClock == InitClock /\ [][NextClock]_vars

----------------------------------------------------------------------------
(* Two calls made at the same time on one orchestrator and one store.  A    *)
(* call is a task that goes through the steps of its code: for               *)
(* process_user_message the part up to the request (lines 139-170), the      *)
(* request (line 173), and the two add_message calls (lines 184-185); each   *)
(* add_message is the read of the chat (chat_utils.py line 120) and then     *)
(* the write of the lengthened list (line 130).  In mode "threads" the      *)
(* callers are two threads, each with an event loop of its own, and the      *)
(* steps of the two tasks come in any order.  In mode "one event loop" the  *)
(* two calls are tasks of one event loop: the request of line 173 is a       *)
(* blocking call inside the awaited coroutine (openai_utils.py line 123), so *)
(* a task that has begun never gives way before it has ended.                *)

TaskIds == { "A", "B" }

Modes == { "threads", "one event loop" }

TaskOps == { "process_user_message", "add_message" }

TaskMessage(id) == << "message of task " \o id >>

TaskReply(id) == << "reply to task " \o id >>

TaskCompletions(id) ==
    { Completion("api error", <<>>, <<>>, NoUsage) }
    \cup { Completion("parsed", TaskReply(id), n, u) : n \in Thoughts, u \in Usages }

IdleTask ==
    [ op |-> "none", pc |-> "idle", sent |-> <<>>, reply |-> <<>>,
      messages |-> <<>>, result |-> "" ]

NewTasks(mode) == [ mode |-> mode, of |-> [ id \in TaskIds |-> IdleTask ] ]

InitTasks ==
    /\ db = <<>>
    /\ chat_id = None
    /\ session_started = FALSE
    /\ current_session = 1
    /\ patient_history = get_default_patient_history
    /\ timer = SessionTimer(session_duration_minutes)
    /\ now = 1
    /\ last_call = Call("__init__", <<>>, Ok, None, <<>>, NotCalled)
    /\ turns = NoTurns
    /\ calls = 0
    /\ json_call = JsonIdle
    /\ probe = NoProbe
    /\ tasks \in { NewTasks(mode) : mode \in Modes }

Resting(task) == task.pc \in { "idle", "returned", "raised" }

\* every task gets a step whenever it has one to take
may_step_always(id) == TRUE

may_step(id) ==
    \/ tasks.mode = "threads"
    \/ \A other \in TaskIds \ {id} : Resting(tasks.of[other])

\* lines 139-170, or the role test of add_message (chat_utils.py line 112)
task_begin(id, op) ==
    /\ may_step(id)
    /\ tasks.of[id].pc = "idle"
    /\ tasks' =
         [ tasks EXCEPT !.of[id] =
             IF op = "add_message"
             THEN [ IdleTask EXCEPT !.op = op, !.pc = "save user" ]
             ELSE IF rejects_message
             THEN [ IdleTask EXCEPT !.op = op, !.pc = "raised",
                                    !.result = SessionNotActive ]
             ELSE [ IdleTask EXCEPT
                      !.op = op, !.pc = "request",
                      !.sent = openai_messages(
                                   fetch_chat(db, chat_id),
                                   create_enhanced_user_input(
                                       TaskMessage(id), timer, now,
                                       current_session, patient_history)) ] ]
    /\ UNCHANGED <<db, chat_id, session_started, current_session, patient_history,
                   timer, now, last_call, turns, calls, json_call, probe>>

\* line 173
task_request_returns(id, completion) ==
    /\ may_step(id)
    /\ tasks.of[id].pc = "request"
    /\ LET response_data == generate_structured_response(tasks.of[id].sent, completion)
       IN  tasks' =
             [ tasks EXCEPT !.of[id] =
                 IF response_data.error # NoError
                 THEN [ @ EXCEPT !.pc = "raised", !.result = response_data.error ]
                 ELSE [ @ EXCEPT !.pc = "save user", !.reply = completion.response ] ]
    /\ UNCHANGED <<db, chat_id, session_started, current_session, patient_history,
                   timer, now, last_call, turns, calls, json_call, probe>>

AfterAddMessage(task, result) ==
    IF task.op = "add_message" \/ task.pc \in { "save reply", "write reply" }
    THEN [ task EXCEPT !.pc = "returned",
                       !.result = IF task.op = "add_message" THEN result ELSE Ok ]
    ELSE [ task EXCEPT !.pc = "save reply" ]

\* chat_utils.py lines 116-124: the chat is read
task_add_message_reads(id) ==
    /\ may_step(id)
    /\ tasks.of[id].pc \in { "save user", "save reply" }
    /\ tasks' =
         [ tasks EXCEPT !.of[id] =
             IF ~HasChat(db, chat_id) THEN AfterAddMessage(@, "False")
             ELSE [ @ EXCEPT !.messages = db[chat_id],
                             !.pc = IF tasks.of[id].pc = "save user"
                                    THEN "write user" ELSE "write reply" ] ]
    /\ UNCHANGED <<db, chat_id, session_started, current_session, patient_history,
                   timer, now, last_call, turns, calls, json_call, probe>>

\* chat_utils.py lines 125-131: the list that was read, one message longer, is
\* written back
task_add_message_writes(id) ==
    /\ may_step(id)
    /\ tasks.of[id].pc \in { "write user", "write reply" }
    /\ db' = [ db EXCEPT ![chat_id] =
                 Append(tasks.of[id].messages,
                        IF tasks.of[id].pc = "write user"
                        THEN Message("user", TaskMessage(id))
                        ELSE Message("assistant", tasks.of[id].reply)) ]
    /\ tasks' = [ tasks EXCEPT !.of[id] = AfterAddMessage(@, "True") ]
    /\ UNCHANGED <<chat_id, session_started, current_session, patient_history,
                   timer, now, last_call, turns, calls, json_call, probe>>

\* the session is started before either call is made, or not at all
NextTasks ==
    \/ /\ calls = 0
       /\ \A id \in TaskIds : tasks.of[id].pc = "idle"
       /\ start_session(0)
    \/ \E id \in TaskIds, op \in TaskOps : task_begin(id, op)
    \/ \E id \in TaskIds : \E completion \in TaskCompletions(id) :
           task_request_returns(id, completion)
    \/ \E id \in TaskIds : task_add_message_reads(id)
    \/ \E id \in TaskIds : task_add_message_writes(id)

SpecTasks == InitTasks /\ [][NextTasks]_vars

\* The calls a caller can make while the store answers every request
Next ==
    \/ start_session(0)
    \/ \E new_history \in PatientHistories : update_patient_history(new_history)
    \/ \E session_number \in SessionNumbers : set_current_session(session_number)
    \/ \E user_message \in UserMessages, completion \in Completions :
           process_user_message(user_message, completion, 0)
    \/ end_session(0)
    \/ Tick

Spec == Init /\ [][Next]_vars

\* The same calls, any store request of which can raise IOError
NextIO ==
    \/ /\ calls < MaxFailCalls
       /\ \/ \E fail_at \in 0..3 : start_session(fail_at)
          \/ \E user_message \in UserMessages, completion \in Completions,
                fail_at \in 0..3 :
                 process_user_message(user_message, completion, fail_at)
          \/ \E fail_at \in 0..2 : end_session(fail_at)
    \/ Tick

SpecIO == Init /\ [][NextIO]_vars

----------------------------------------------------------------------------
(* Properties *)

\* A step that is a call on the orchestrator (time passing is the other kind)
IsCall(op) == calls' # calls /\ last_call'.op = op

Last(seq) == seq[Len(seq)]

\* C1: process_user_message called while the orchestrator is NotStarted or
\* Ended fails with SessionNotActive, asks the model nothing and leaves every
\* transcript as it was.
C1_RejectedUnlessActive ==
    [][ (IsCall("process_user_message") /\ State \in {"NotStarted", "Ended"})
        => /\ last_call'.result = SessionNotActive
           /\ last_call'.model = NotCalled
           /\ last_call'.sent = <<>>
           /\ db' = db ]_vars

C1_Witness ==
    /\ last_call.op = "process_user_message"
    /\ last_call.result = SessionNotActive
    /\ State = "Ended"
    /\ Len(db[chat_id]) = 3

\* C2: when the structured model call of process_user_message fails (the
\* request raises, or the model refuses), the caller gets that failure and
\* the transcripts are exactly what they were before the call.
C2_ModelFailureCommitsNothing ==
    [][ (IsCall("process_user_message") /\ last_call'.model.kind \in Failures)
        => /\ last_call'.result \in
                  { "APIError", "ValueError: Model refused to respond" }
           /\ last_call'.model.kind = "refusal"
                  <=> last_call'.result = "ValueError: Model refused to respond"
           /\ last_call'.ret = None
           /\ db' = db ]_vars

C2_Witness ==
    /\ last_call.op = "process_user_message"
    /\ last_call.model.kind = "refusal"
    /\ last_call.result = "ValueError: Model refused to respond"
    /\ Len(last_call.sent) = 3
    /\ Len(db[chat_id]) = 2

\* A text laid out as create_enhanced_user_input lays it out
IsEnhancedPayload(text) ==
    /\ Len(text) >= 2
    /\ text[1] = "Latest_Patient_Message:"
    /\ text[2] = "{"
    /\ validate_enhanced_input(text)

\* C3: a successful process_user_message appends exactly two entries, the user
\* entry with the raw message and then the assistant entry with the reply
\* text; no entry of any transcript ever holds the clinician notes or an
\* enhanced payload.
C3_TurnStoresRawAndReply ==
    /\ [][ (IsCall("process_user_message") /\ last_call'.result = Ok)
           => /\ db' = [ db EXCEPT ![chat_id] =
                           @ \o << [ role |-> "user", content |-> last_call'.arg ],
                                   [ role |-> "assistant",
                                     content |-> last_call'.model.response ] >> ]
              /\ last_call'.ret.patient_response = last_call'.model.response
              /\ Last(db'[chat_id]).content # last_call'.ret.psychiatrist_thoughts
              /\ db'[chat_id][Len(db'[chat_id]) - 1].content
                     # Last(last_call'.sent).content ]_vars
    /\ [] (\A id \in DOMAIN db : \A i \in 1..Len(db[id]) :
              /\ db[id][i].content \notin Thoughts
              /\ ~IsEnhancedPayload(db[id][i].content))

C3_Witness ==
    /\ last_call.op = "process_user_message"
    /\ last_call.result = Ok
    /\ Len(db[chat_id]) = 4
    /\ IsEnhancedPayload(Last(last_call.sent).content)
    /\ last_call.ret.psychiatrist_thoughts \in Thoughts

RECURSIVE Flatten(_)
Flatten(pairs) ==
    IF Len(pairs) = 0 THEN <<>>
    ELSE << [ role |-> "user", content |-> pairs[1][1] ],
            [ role |-> "assistant", content |-> pairs[1][2] ] >>
         \o Flatten(Tail(pairs))

\* C4: after start_session and n >= 0 successful process_user_message calls
\* made one after the other (no end_session), the transcript is the system
\* instructions, the opening user entry, and then for each turn in call order
\* its raw user text followed by its reply: 2 + 2n entries.
C4_TranscriptShape ==
    turns.clean
    => /\ session_started
       /\ chat_id \in DOMAIN db
       /\ Len(db[chat_id]) = 2 + 2 * Len(turns.pairs)
       /\ db[chat_id] =
              << [ role |-> "system", content |-> get_system_prompt ],
                 [ role |-> "user",
                   content |-> << "The User is just entering the chat." >> ] >>
              \o Flatten(turns.pairs)

C4_Witness ==
    /\ turns.clean
    /\ Len(turns.pairs) = 2
    /\ turns.pairs[1][1] # turns.pairs[2][1]
    /\ Len(db[chat_id]) = 6

\* C5: start_session from NotStarted creates a new transcript holding exactly
\* the system instructions and then the opening user entry, starts the clock,
\* makes the orchestrator Active and returns the new transcript's identifier.
C5_StartSession ==
    [][ (IsCall("start_session") /\ last_call'.result = Ok /\ State = "NotStarted")
        => /\ chat_id' \notin DOMAIN db
           /\ DOMAIN db' = DOMAIN db \cup {chat_id'}
           /\ \A id \in DOMAIN db : db'[id] = db[id]
           /\ db'[chat_id'] =
                  << [ role |-> "system", content |-> get_system_prompt ],
                     [ role |-> "user",
                       content |-> << "The User is just entering the chat." >> ] >>
           /\ timer'.start_time = now
           /\ timer'.end_time = now + session_duration_minutes * 60
           /\ State' = "Active"
           /\ last_call'.ret = chat_id' ]_vars

C5_Witness ==
    /\ last_call.op = "start_session"
    /\ last_call.result = Ok
    /\ calls = 1
    /\ State = "Active"
    /\ now > 1
    /\ timer.start_time = now

\* C6: once the orchestrator is Ended, no operation makes it Active again.
C6_EndedIsFinal ==
    [][ State = "Ended" => State' # "Active" ]_vars

\* C7: start_session on an Active orchestrator fails and leaves the held
\* transcript identifier, the transcripts and the clock as they were.
C7_SecondStartRejected ==
    [][ (IsCall("start_session") /\ State = "Active")
        => /\ last_call'.result # Ok
           /\ chat_id' = chat_id
           /\ db' = db
           /\ timer' = timer ]_vars

\* C8: end_session is valid only in Active: in NotStarted, and when called
\* again in Ended, it is rejected and appends no closing entry to any
\* transcript.
C8_EndOnlyWhenActive ==
    [][ (IsCall("end_session") /\ State \in {"NotStarted", "Ended"})
        => /\ last_call'.result # Ok
           /\ db' = db ]_vars

Count(chat_messages, role) ==
    Cardinality({ i \in 1..Len(chat_messages) : chat_messages[i].role = role })

\* C9: end_session in Active counts the messages of the transcript as it is
\* before the closing entry, then appends exactly one closing system entry as
\* the last entry and becomes Ended: the counts never include the closing
\* entry, and the transcript ends up one entry longer than the reported total.
C9_SummaryBeforeClosing ==
    [][ (IsCall("end_session") /\ last_call'.result = Ok /\ State = "Active")
        => /\ last_call'.ret.message_count =
                  [ user |-> Count(db[chat_id], "user"),
                    assistant |-> Count(db[chat_id], "assistant"),
                    total |-> Len(db[chat_id]) ]
           /\ db' = [ db EXCEPT ![chat_id] =
                        Append(@, [ role |-> "system",
                                    content |-> end_message(current_session) ]) ]
           /\ Len(db'[chat_id]) = last_call'.ret.message_count.total + 1
           /\ State' = "Ended" ]_vars

C9_Witness ==
    /\ last_call.op = "end_session"
    /\ last_call.result = Ok
    /\ State = "Ended"
    /\ last_call.ret.message_count.total = 4
    /\ Len(db[chat_id]) = 5
    /\ Last(db[chat_id]).role = "system"
    /\ Count(db[chat_id], "system") = 2

IsPrefix(s, t) == Len(s) <= Len(t) /\ SubSeq(t, 1, Len(s)) = s

\* C11: every transcript is append-only: at every step of any sequence of
\* start_session, process_user_message (successful or failed), end_session,
\* update_patient_history and set_current_session, the transcript stored under
\* each identifier before the step is a prefix of the one stored after it.
C11_AppendOnly ==
    [][ \A id \in DOMAIN db : id \in DOMAIN db' /\ IsPrefix(db[id], db'[id]) ]_vars

C11_Witness ==
    /\ Len(db) = 2
    /\ Len(db[1]) = 5
    /\ Len(db[2]) = 4
    /\ last_call.op = "process_user_message"
    /\ last_call.result = Ok

\* C12: on every process_user_message call in Active that asks the model, the
\* messages sent are the entries of the current transcript in stored order
\* followed by exactly one user entry holding the enhanced payload of the new
\* message; earlier user turns appear in raw form and no earlier enhanced
\* payload is among them.
C12_SentMessages ==
    [][ (IsCall("process_user_message") /\ State = "Active"
           /\ last_call'.model # NotCalled)
        => /\ Len(last_call'.sent) = Len(db[chat_id]) + 1
           /\ SubSeq(last_call'.sent, 1, Len(db[chat_id])) = db[chat_id]
           /\ Last(last_call'.sent) =
                  [ role |-> "user",
                    content |->
                        create_enhanced_user_input(last_call'.arg, timer, now,
                                                   current_session, patient_history) ]
           /\ IsEnhancedPayload(Last(last_call'.sent).content)
           /\ \A i \in 1..(Len(last_call'.sent) - 1) :
                  ~IsEnhancedPayload(last_call'.sent[i].content) ]_vars

C12_Witness ==
    /\ last_call.op = "process_user_message"
    /\ last_call.result = Ok
    /\ Len(last_call.sent) = 5
    /\ last_call.sent[3].content \in UserMessages
    /\ last_call.sent[4].role = "assistant"
    /\ IsEnhancedPayload(last_call.sent[5].content)

\* The JSON-retry utility is run once, and then the orchestrator is asked for
\* a few turns: the two share no state
NextJson ==
    \/ /\ calls = 0
       /\ \E system_prompts \in SystemPrompts, prompt_id \in PromptIds :
              generate_json_custom_ai(system_prompts, prompt_id)
    \/ \E reply \in TextReplies : generate_text_returns(reply)
    \/ /\ json_call.status # "running"
       /\ calls < MaxFailCalls
       /\ \/ start_session(0)
          \/ \E user_message \in UserMessages, completion \in Completions :
                 process_user_message(user_message, completion, 0)

SpecJson == Init /\ [][NextJson]_vars


\* A reply whose text is not a JSON document, and one whose text is
IsUnparsable(reply) ==
    /\ reply.kind = "text"
    /\ Len(reply.text) > 0
    /\ ~parse_json(clean_response(reply.text)).parsed

IsValidJson(reply) ==
    /\ reply.kind = "text"
    /\ parse_json(clean_response(reply.text)).parsed

\* C13: a run of the JSON-retry utility makes at most 6 requests; when the
\* replies before the latest one were all unparsable and the latest one is
\* valid JSON, the run has returned that reply's parsed value; when 6 replies
\* were all unparsable, the run has failed with the retries-exhausted error.
C13_ReturnsKthValidJson ==
    LET replies == json_call.replies
        n == Len(replies)
    IN  /\ n <= 6
        /\ ( /\ n >= 1
             /\ \A i \in 1..(n - 1) : IsUnparsable(replies[i])
             /\ IsValidJson(replies[n]) )
           => /\ json_call.status = "returned"
              /\ json_call.output = parse_json(clean_response(replies[n].text)).value
        /\ (n = 6 /\ \A i \in 1..n : IsUnparsable(replies[i]))
           => /\ json_call.status = "raised"
              /\ json_call.error = RetryExhausted

\* C14: a failed model request is not repeated.  In process_user_message the
\* failure of the one structured request is the result of the call and no
\* turn is recorded; in the JSON-retry utility a request that raises ends the
\* run with that error whatever the retry count, and a run that has ended
\* makes no further request.
C14_FailuresNotRetried ==
    [][ /\ (IsCall("process_user_message") /\ last_call'.model.kind \in Failures)
           => /\ last_call'.result = ErrorOf(last_call'.model.kind)
              /\ turns' = turns
              /\ calls' = calls + 1
        /\ ( /\ json_call' # json_call
             /\ json_call.status = "running"
             /\ Last(json_call'.replies).kind = "api error" )
           => /\ json_call'.status = "raised"
              /\ json_call'.error = "APIError"
              /\ json_call'.retry_count = json_call.retry_count
              /\ Len(json_call'.replies) = Len(json_call.replies) + 1
        /\ json_call.status \in { "raised", "returned" } => json_call' = json_call
      ]_vars

C14_Witness ==
    /\ json_call.status = "raised"
    /\ json_call.error = "APIError"
    /\ json_call.retry_count = 2
    /\ Len(json_call.replies) = 3
    /\ last_call.op = "process_user_message"
    /\ last_call.model.kind = "api error"
    /\ last_call.result = "APIError"


IsStoreCall(fn) == calls' # calls /\ probe'.fn = fn

\* C15: add_message with a role outside the three fails with the invalid-role
\* error, add_message with an identifier no chat has fails with an error as
\* well, and neither changes the store; with a valid role and a known
\* identifier it appends one entry at the end of that chat.
C15_UnknownIdFails ==
    [][ IsStoreCall("add_message")
        => /\ probe'.role \notin Roles
              => (probe'.result = "ValueError" /\ db' = db)
           /\ (probe'.role \in Roles /\ ~HasChat(db, probe'.id))
              => (probe'.result \notin { "True", "False" } /\ db' = db)
           /\ (probe'.role \in Roles /\ HasChat(db, probe'.id))
              => /\ probe'.result = "True"
                 /\ db' = [ db EXCEPT ![probe'.id] =
                                Append(@, Message(probe'.role, probe'.message)) ]
      ]_vars

\* C15 as the code has it: an identifier no chat has makes add_message return
\* False without raising; the rest as above.
C15_UnknownIdReturnsFalse ==
    [][ IsStoreCall("add_message")
        => /\ probe'.role \notin Roles
              => (probe'.result = "ValueError" /\ db' = db)
           /\ (probe'.role \in Roles /\ ~HasChat(db, probe'.id))
              => (probe'.result = "False" /\ db' = db)
           /\ (probe'.role \in Roles /\ HasChat(db, probe'.id))
              => /\ probe'.result = "True"
                 /\ Len(db'[probe'.id]) = Len(db[probe'.id]) + 1
                 /\ db' = [ db EXCEPT ![probe'.id] =
                                Append(@, Message(probe'.role, probe'.message)) ]
      ]_vars

C15_Witness ==
    /\ probe.fn = "add_message"
    /\ probe.role = "assistant"
    /\ probe.id = 2
    /\ probe.result = "False"
    /\ Len(db) = 1
    /\ Len(db[1]) = 2

IsTurnEntry(msg) == msg.role \in { "user", "assistant" }

Rendered(msg) ==
    << "*" \o (IF msg.role = "user" THEN "Patient" ELSE "Therapist") \o "*:" >>
    \o msg.content

\* C18: parse_chat of a chat gives the user and assistant entries of the chat
\* in stored order, each as its label between stars, a colon and the content,
\* joined by the delimiter, and nothing of the system entries.
C18_RenderShowsTurnEntries ==
    (probe.fn = "parse_chat" /\ HasChat(db, probe.id))
    => LET shown == SelectSeq(db[probe.id], IsTurnEntry)
       IN  /\ probe.result = "str"
           /\ probe.text = JoinText([ i \in 1..Len(shown) |-> Rendered(shown[i]) ],
                                    " |\n| ")


\* the labels stand in the text in this order, whatever stands between them
RECURSIVE InOrder(_, _)
InOrder(text, labels) ==
    IF Len(labels) = 0 THEN TRUE
    ELSE \E i \in 1..Len(text) :
             /\ text[i] = labels[1]
             /\ InOrder(SubSeq(text, i + 1, Len(text)), Tail(labels))

\* C16: the payload create_enhanced_user_input builds has the four labels in
\* their fixed order and validate_enhanced_input accepts it, so that
\* process_user_message never fails with the validation error;
\* validate_enhanced_input accepts a text exactly when each of the four labels
\* stands in it, in whatever order.
C16_PayloadHasTheFourLabels ==
    /\ (probe # NoProbe /\ probe.fn = "create_enhanced_user_input")
       => /\ InOrder(probe.text, << "Latest_Patient_Message:", "Time_Left_In_Session:",
                                    "Current_Session:", "Patient_History:" >>)
          /\ validate_enhanced_input(probe.text)
    /\ (probe # NoProbe /\ probe.fn = "validate_enhanced_input")
       => (probe.result = "True"
           <=> \A label \in { "Latest_Patient_Message:", "Time_Left_In_Session:",
                              "Current_Session:", "Patient_History:" } :
                   \E i \in 1..Len(probe.text) : probe.text[i] = label)
    /\ last_call.result # EnhancementInvalid
    /\ (last_call.op = "process_user_message" /\ last_call.model # NotCalled)
       => validate_enhanced_input(Last(last_call.sent).content)

C16_Witness ==
    /\ probe # NoProbe
    /\ probe.fn = "validate_enhanced_input"
    /\ probe.result = "True"
    /\ IsEnhancedPayload(probe.text)
    /\ probe.text[3] = "Patient_History:"


IsSuffix(s, t) == Len(s) <= Len(t) /\ SubSeq(t, Len(t) - Len(s) + 1, Len(t)) = s

\* C17: update_patient_history and set_current_session succeed in every
\* lifecycle state; the first changes the patient history to its argument and
\* the second the session number to its argument, and neither changes the
\* lifecycle state, the clock or a transcript; nothing else changes the two
\* values, and the payload of a later process_user_message is written with
\* the values then held.
C17_UpdatesAnyTime ==
    [][ /\ IsCall("update_patient_history")
           => /\ last_call'.result = Ok
              /\ patient_history' = last_call'.arg
              /\ UNCHANGED <<db, chat_id, session_started, current_session, timer>>
        /\ IsCall("set_current_session")
           => /\ last_call'.result = Ok
              /\ current_session' = last_call'.arg
              /\ UNCHANGED <<db, chat_id, session_started, patient_history, timer>>
        /\ patient_history' # patient_history => IsCall("update_patient_history")
        /\ current_session' # current_session => IsCall("set_current_session")
        /\ (IsCall("process_user_message") /\ last_call'.model # NotCalled)
           => IsSuffix(<< "Current_Session:", "{",
                          "Session " \o ToString(current_session), "}", ";",
                          "Patient_History:", "{" >>
                       \o format_patient_history(patient_history) \o << "}", ";" >>,
                       Last(last_call'.sent).content)
      ]_vars

C17_Witness ==
    /\ last_call.op = "process_user_message"
    /\ last_call.result = Ok
    /\ current_session = 2
    /\ patient_history = OtherPatientHistory
    /\ Contains(Last(last_call.sent).content, "Session 2")
    /\ Contains(Last(last_call.sent).content, "Patient: Unknown (Age: Unknown)")


\* C19: the timer's start and deadline are both unset, or both set with the
\* deadline one session duration after the start; the timer changes only in a
\* start_session call, whatever else is called and however time goes by.
C19_DeadlineIsStartPlusDuration ==
    /\ [](/\ timer.session_duration = session_duration_minutes * 60
          /\ \/ timer.start_time = None /\ timer.end_time = None
             \/ /\ timer.start_time # None
                /\ timer.end_time # None
                /\ timer.end_time = timer.start_time + timer.session_duration)
    /\ [][ timer' # timer => IsCall("start_session") ]_vars

C19_Witness ==
    /\ Len(db) = 2
    /\ last_call.op = "end_session"
    /\ now = 1 + 2 * TickStep
    /\ timer.start_time = 1 + TickStep
    /\ timer.end_time = 1 + TickStep + session_duration_minutes * 60

\* C20: for a started timer, get_time_left is the time from now to the
\* deadline, or 0 once the deadline is reached, as whole minutes and seconds
\* below 60; it is never negative and is 0 minutes 0 seconds at and after the
\* deadline; is_session_active is true exactly while now is before the deadline.
C20_TimeLeft ==
    (probe # NoProbe /\ timer.start_time # None)
    => /\ probe.fn = "get_time_left"
          => /\ probe.value.minutes >= 0
             /\ probe.value.seconds \in 0..59
             /\ probe.value.minutes * 60 + probe.value.seconds
                    = (IF timer.end_time > now THEN timer.end_time - now ELSE 0)
             /\ now >= timer.end_time
                    => probe.value = [ minutes |-> 0, seconds |-> 0 ]
       /\ probe.fn = "is_session_active"
          => (probe.value <=> now < timer.end_time)

C20_Witness ==
    /\ probe # NoProbe
    /\ probe.fn = "get_time_left"
    /\ timer.session_duration = 120
    /\ now = timer.start_time + 1
    /\ probe.value = [ minutes |-> 1, seconds |-> 59 ]


\* C21: on a timer that was not started, whatever its duration and whatever
\* the time, extract_session_metrics reports the session as not active, 0
\* minutes 0 seconds elapsed, 0 minutes 0 seconds remaining and 0 percent.
C21_MetricsBeforeStart ==
    (probe # NoProbe /\ probe.fn = "extract_session_metrics" /\ timer.start_time = None)
    => /\ probe.value.session_active = FALSE
       /\ probe.value.elapsed_minutes = 0
       /\ probe.value.elapsed_seconds = 0
       /\ probe.value.remaining_minutes = 0
       /\ probe.value.remaining_seconds = 0
       /\ probe.value.completion_percentage = 0
       /\ probe.value.total_duration_minutes * 60 = timer.session_duration

C21_Witness ==
    /\ probe # NoProbe
    /\ probe.fn = "extract_session_metrics"
    /\ timer.start_time = None
    /\ timer.session_duration = 120
    /\ now = 100
    /\ probe.value.completion_percentage = 0

\* C22: on a started timer, once the elapsed time has reached the duration,
\* extract_session_metrics reports a percentage of 100 or more, which is the
\* elapsed time over the duration rounded to two places and so goes on
\* growing past 100, with 0 minutes 0 seconds remaining and the session not
\* active.  The percentage is kept in hundredths of a percent.
C22_PercentagePastTheDeadline ==
    ( /\ probe # NoProbe
      /\ probe.fn = "extract_session_metrics"
      /\ timer.start_time # None
      /\ now - timer.start_time >= timer.session_duration )
    => LET elapsed == now - timer.start_time
           percentage == probe.value.completion_percentage
       IN  /\ percentage >= 10000
           /\ elapsed > timer.session_duration => percentage > 10000
           /\ 2 * (percentage * timer.session_duration - elapsed * 10000)
                  <= timer.session_duration
           /\ 2 * (elapsed * 10000 - percentage * timer.session_duration)
                  <= timer.session_duration
           /\ probe.value.remaining_minutes = 0
           /\ probe.value.remaining_seconds = 0
           /\ probe.value.session_active = FALSE

C22_Witness ==
    /\ probe # NoProbe
    /\ probe.fn = "extract_session_metrics"
    /\ timer.session_duration = 60
    /\ now = timer.start_time + 90
    /\ probe.value.completion_percentage = 15000
    /\ probe.value.session_active = FALSE


\* no raw user entry of a task's turn is followed by anything but the reply
\* of that turn
NoSplitTurn(chat_messages) ==
    \A i \in 1..(Len(chat_messages) - 1) : \A id \in TaskIds :
        chat_messages[i] = Message("user", TaskMessage(id))
        => chat_messages[i + 1] = Message("assistant", TaskReply(id))

OnlyProcessTasks ==
    \A id \in TaskIds : tasks.of[id].op \in { "none", "process_user_message" }

\* C23: when the process_user_message calls on one orchestrator run one after
\* the other, the raw user entry of a turn is never followed in the transcript
\* by anything but that turn's reply; when two of them run at the same time,
\* transcripts in which the entries of the two turns are interleaved are
\* reached (the witness: user A, user B, reply A, reply B).
C23_SequentialTurnsStayTogether ==
    (tasks.mode = "one event loop" /\ OnlyProcessTasks)
    => \A id \in DOMAIN db : NoSplitTurn(db[id])

C23_Witness ==
    /\ tasks.mode = "threads"
    /\ OnlyProcessTasks
    /\ session_started
    /\ db[chat_id] = start_entries
                     \o << Message("user", TaskMessage("A")),
                           Message("user", TaskMessage("B")),
                           Message("assistant", TaskReply("A")),
                           Message("assistant", TaskReply("B")) >>

\* C29: when two add_message calls on the same chat run at the same time and
\* both return True, the chat holds the entries of both afterwards.
C29_NoEntryLost ==
    ( /\ tasks.mode # "none"
      /\ \A id \in TaskIds : /\ tasks.of[id].op = "add_message"
                             /\ tasks.of[id].pc = "returned"
                             /\ tasks.of[id].result = "True" )
    => \A id \in TaskIds :
           \E i \in 1..Len(db[chat_id]) :
               db[chat_id][i] = Message("user", TaskMessage(id))


\* C24: whatever fails in a process_user_message call, the store included,
\* the transcript after the call is the transcript before it, or that
\* transcript with the raw user entry and the assistant entry of the turn
\* both appended: never the user entry alone.
C24_TurnIsAllOrNothing ==
    [][ (IsCall("process_user_message") /\ State = "Active")
        => \/ db'[chat_id] = db[chat_id]
           \/ /\ Len(db'[chat_id]) = Len(db[chat_id]) + 2
              /\ SubSeq(db'[chat_id], 1, Len(db[chat_id])) = db[chat_id]
              /\ db'[chat_id][Len(db[chat_id]) + 1] = Message("user", last_call'.arg)
              /\ Last(db'[chat_id]).role = "assistant" ]_vars

\* C25: a start_session call on a NotStarted orchestrator that fails, in the
\* creation of the chat or in either append, leaves the orchestrator
\* NotStarted, with the timer not started and process_user_message rejected.
C25_FailedStartLeavesNotStarted ==
    [][ (IsCall("start_session") /\ State = "NotStarted" /\ last_call'.result # Ok)
        => /\ State' = "NotStarted"
           /\ timer'.start_time = None
           /\ timer'.end_time = None
           /\ ~session_started' ]_vars


\* C26: the deadline going by does not change the lifecycle state.  A
\* process_user_message call made on an Active orchestrator at or after the
\* deadline is not rejected and asks the model; when the model answers, the
\* call succeeds, appends the turn and returns session_active false with a
\* time left of 0 minutes and 0 seconds; the orchestrator stays Active, and
\* Active is left only by an end_session call.
C26_ExpiryKeepsActive ==
    [][ /\ ( /\ IsCall("process_user_message")
             /\ State = "Active"
             /\ timer.start_time # None
             /\ now >= timer.end_time )
           => /\ last_call'.result # SessionNotActive
              /\ last_call'.model # NotCalled
              /\ State' = "Active"
              /\ last_call'.model.kind = "parsed"
                 => /\ last_call'.result = Ok
                    /\ last_call'.ret.session_active = FALSE
                    /\ last_call'.ret.time_left = "0 minutes and 0 seconds"
                    /\ db'[chat_id] =
                           db[chat_id]
                           \o << Message("user", last_call'.arg),
                                 Message("assistant", last_call'.model.response) >>
        /\ (State = "Active" /\ State' # "Active") => IsCall("end_session")
      ]_vars

C26_Witness ==
    /\ last_call.op = "process_user_message"
    /\ last_call.result = Ok
    /\ State = "Active"
    /\ now > timer.end_time
    /\ last_call.ret.session_active = FALSE
    /\ last_call.ret.time_left = "0 minutes and 0 seconds"
    /\ Len(db[chat_id]) = 4


IsJsonReply == json_call' # json_call /\ json_call.status = "running"

IsFalsyJson(reply) ==
    /\ IsValidJson(reply)
    /\ ~JsonTruthy[clean_response(reply.text)[1]]

C28_NoTextFailsAtOnce ==
    [][ /\ ( /\ IsJsonReply
             /\ Last(json_call'.replies).kind = "text"
             /\ Len(Last(json_call'.replies).text) = 0 )
           => /\ json_call'.status = "raised"
              /\ json_call'.error = NoText
              /\ json_call'.retry_count = json_call.retry_count
              /\ Len(json_call'.replies) = Len(json_call.replies) + 1
        /\ (json_call.status = "raised" /\ json_call.error = NoText)
           => json_call' = json_call
      ]_vars

C28_Witness ==
    /\ json_call.status = "raised"
    /\ json_call.error = NoText
    /\ json_call.retry_count = 2
    /\ Len(json_call.replies) = 3
    /\ json_call.replies[3] = TextReply("text", <<>>)


\* C30: a call on the orchestrator changes no transcript but the one stored
\* under the identifier the orchestrator holds after the call; start_session
\* takes an identifier no chat has, so that the chats of earlier sessions, and
\* every other chat of the store, stay as they are.
C30_OtherChatsUntouched ==
    [][ /\ \A id \in DOMAIN db :
               id # chat_id' => (id \in DOMAIN db' /\ db'[id] = db[id])
        /\ (IsCall("start_session") /\ last_call'.result = Ok)
           => /\ chat_id' \notin DOMAIN db
              /\ \A id \in DOMAIN db : db'[id] = db[id]
        /\ (IsCall("process_user_message") \/ IsCall("end_session"))
           => /\ chat_id' = chat_id
              /\ DOMAIN db' = DOMAIN db
      ]_vars

C30_Witness ==
    /\ Len(db) = 2
    /\ chat_id = 2
    /\ last_call.op = "end_session"
    /\ Len(db[1]) = 4
    /\ db[1][3].role = "user"
    /\ Len(db[2]) = 3
    /\ Last(db[2]).role = "system"

====
